---- MODULE Spec2Model ----
(***************************************************************************)
(* Model of lab_03/processor/dataprocessor.py: the DataProcessor contract  *)
(* (read / run / print_result) and its three concrete processors           *)
(* CsvDataProcessor, TxtDataProcessor and JSONDataProcessor.               *)
(*                                                                         *)
(* One processor instance is modelled.  A table (pandas.DataFrame) is a    *)
(* record with an ordered list of column names and an ordered list of      *)
(* rows, each row a function from the column names to cell values.         *)
(* The Python value None is the record None.                               *)
(***************************************************************************)
EXTENDS Integers, Sequences, FiniteSets, TLC

\* ------------------------------------------------------------------ bounds
\* largest number of data rows of a parsed source
MaxRows == 2
\* cell values are 1..MaxVal
MaxVal == 2
\* run() is explored while ResultTable stays within this many rows
MaxResultRows == 2

\* ------------------------------------------------------- program constants
\* read() rejects a parsed table with fewer columns than this
MinCols == 2
\* the missing-cell marker pandas.concat fills in for a column a frame lacks
NaN == 0

Vals == 1..MaxVal

Variants == {"csv", "txt", "json"}

\* ------------------------------------------------------------------ tables
None == [isNone |-> TRUE, cols |-> <<>>, rows |-> <<>>]

DataFrame(cols, rows) == [isNone |-> FALSE, cols |-> cols, rows |-> rows]

Range(s) == {s[i] : i \in 1..Len(s)}

\* column layouts a source file can have: the two layouts whose rows are
\* explored with every combination of key values, and the layouts that are
\* explored for their column structure (a single column, one referenced
\* column missing, an extra column), whose cells are all 1
KeyedHeaders ==
    { <<"title", "directedBy", "dateAdded">>,
      <<"dateAdded", "directedBy", "avgRating", "title">> }

ShapeHeaders ==
    { <<"genre", "title", "avgRating", "directedBy", "dateAdded">>,
      <<"title">>,
      <<"title", "directedBy", "avgRating">>,
      <<"title", "dateAdded", "avgRating">>,
      <<"directedBy", "dateAdded", "avgRating">> }

Headers == KeyedHeaders \cup ShapeHeaders

\* a data row of layout h: title t, directedBy d, every other cell 1
Row(h, t, d) ==
    [c \in Range(h) |-> IF c = "title" THEN t
                        ELSE IF c = "directedBy" THEN d
                        ELSE 1]

RowsOf(h) ==
    IF h \in KeyedHeaders THEN {Row(h, t, d) : t \in Vals, d \in Vals}
    ELSE {Row(h, 1, 1)}

\* the tables a parse of the data source can produce
Parsed ==
    UNION { {DataFrame(h, rows) :
                rows \in UNION {[1..n -> RowsOf(h)] : n \in 0..MaxRows}} :
            h \in Headers }

\* the outcome of the pandas reader: it raises, or it yields a table
Unparsable == [isNone |-> TRUE, cols |-> <<>>, rows |-> <<>>, raises |-> TRUE]

Sources == Parsed \cup {Unparsable}

\* ---------------------------------------------------------------- helpers
\* DataFrame.sort_values(by=[colname], ascending=asc) reorders all rows by
\* one column.  pandas leaves the order of rows with equal keys to the sort
\* algorithm of the build (kind='quicksort'); the algorithm is a fixed
\* function of its input, here either order-preserving or order-reversing
\* on ties (variable ties).
Before(a, b, asc) == IF asc THEN a < b ELSE a > b

RECURSIVE InsertRow(_, _, _, _, _)
InsertRow(sorted, r, colname, asc, keep) ==
    IF sorted = <<>> THEN <<r>>
    ELSE LET h == Head(sorted)
         IN  IF Before(h[colname], r[colname], asc)
                \/ (keep /\ h[colname] = r[colname])
             THEN <<h>> \o InsertRow(Tail(sorted), r, colname, asc, keep)
             ELSE <<r>> \o sorted

RECURSIVE SortRows(_, _, _, _)
SortRows(rows, colname, asc, keep) ==
    IF rows = <<>> THEN <<>>
    ELSE InsertRow(SortRows(SubSeq(rows, 1, Len(rows) - 1), colname, asc, keep),
                   rows[Len(rows)], colname, asc, keep)

\* mutant: the sort loses the last row of the frame
sort_data_by_col_lossy(df, colname, asc, keep) ==
    DataFrame(df.cols,
              SortRows(SubSeq(df.rows, 1, Len(df.rows) - 1), colname, asc, keep))

\* sort_values raises KeyError for a column the frame does not have
SortRaises(df, colname) == colname \notin Range(df.cols)

sort_data_by_col(df, colname, asc, keep) ==
    DataFrame(df.cols, SortRows(df.rows, colname, asc, keep))

\* mutant: drop(..., errors='ignore'), an absent label is skipped
DropRaises_ignore(df, colname) == df.isNone

\* DataFrame.drop(colname, axis=1) raises KeyError when a label is absent
\* (errors='raise' is the default); on None the attribute lookup raises
DropRaises(df, colname) ==
    df.isNone \/ \E c \in Range(colname) : c \notin Range(df.cols)

remove_col_by_name(df, colname) ==
    LET kept == SelectSeq(df.cols, LAMBDA c : c \notin Range(colname))
    IN  DataFrame(kept,
                  [i \in 1..Len(df.rows) |->
                      [c \in Range(kept) |-> df.rows[i][c]]])

\* pandas.concat([result, cleaned_result], ignore_index=True): None entries
\* are skipped; the columns are the union in order of first appearance and
\* a cell of a column a frame lacks is NaN
Widen(r, cols) ==
    [c \in Range(cols) |-> IF c \in DOMAIN r THEN r[c] ELSE NaN]

\* mutant: the new batch replaces the result instead of being appended
concat_replace(result_, cleaned) == cleaned

concat(result_, cleaned) ==
    IF result_.isNone THEN cleaned
    ELSE LET cols == result_.cols \o
                     SelectSeq(cleaned.cols, LAMBDA c : c \notin Range(result_.cols))
             all  == result_.rows \o cleaned.rows
         IN  DataFrame(cols, [i \in 1..Len(all) |-> Widen(all[i], cols)])

\* ------------------------------------------------ per-variant parameters
\* mutant: the JSON processor drops dateAdded only
DropCols_one(v) == <<"dateAdded">>

\* columns run() drops (lines 83, 108, 131)
DropCols(v) == IF v = "json" THEN <<"dateAdded", "avgRating">>
               ELSE <<"dateAdded">>

\* mutant: the sort keys in the opposite order
target_values_swapped == <<"title", "directedBy">>

\* target_values of run() (lines 84, 109, 132)
target_values == <<"directedBy", "title">>

\* the asc argument run() passes to sort_data_by_col (lines 86, 111, 134)
Ascending(v) == v = "json"

\* label print_result() writes (lines 90, 115, 138)
Label(v) == IF v = "csv" THEN "Running CSV-file processor!"
            ELSE IF v = "txt" THEN "Running TXT-file processor!"
            ELSE "Running JSON-file processor!"

\* the body of run() up to the concat: cleaned_result after the drop and
\* the loop over target_values
RECURSIVE SortLoop(_, _, _, _)
SortLoop(df, targets, asc, keep) ==
    IF targets = <<>> THEN df
    ELSE SortLoop(sort_data_by_col(df, Head(targets), asc, keep),
                  Tail(targets), asc, keep)

Cleaned(df, v, keep) ==
    SortLoop(remove_col_by_name(df, DropCols(v)), target_values, Ascending(v), keep)

\* mutant: run() returns silently when no table has been read
RunRaises_skipNone(df, v) ==
    /\ ~df.isNone
    /\ \/ DropRaises(df, DropCols(v))
       \/ \E i \in 1..Len(target_values) :
             SortRaises(remove_col_by_name(df, DropCols(v)), target_values[i])

\* run() raises when the drop raises or a sort of the loop raises
RunRaises(df, v) ==
    \/ DropRaises(df, DropCols(v))
    \/ \E i \in 1..Len(target_values) :
          SortRaises(remove_col_by_name(df, DropCols(v)), target_values[i])

\* mutant: one column is enough for read() to return True
ReadReturns_lax(df) == ~(Len(df.cols) < 1)

\* the check of read() on the parsed columns (lines 74-76)
ReadReturns(df) == ~(Len(df.cols) < MinCols)

\* ------------------------------------------------------------------- state
VARIABLES
    variant,    \* the concrete class of the processor
    ties,       \* TRUE: the build's sort keeps equal keys in input order
    _dataset,   \* self._dataset, RawTable
    result,     \* self.result, ResultTable
    op,         \* the method called last ("new" after construction)
    ret,        \* what it returned: "True", "False" or "None"
    raised,     \* whether it raised to the caller
    stdout,     \* what it printed: "" nothing, "detail" str(e), or a label
    lastRead,   \* what the most recent read() returned, "none" before one
    rawFrom     \* where _dataset stands with respect to the reads so far:
                \* "unset"   no read() has returned True yet,
                \* "current" it is the table parsed by the most recent read()
                \*           that returned True,
                \* "stale"   a read() returned True earlier and a later
                \*           read() that returned False replaced the table

vars == <<variant, ties, _dataset, result, op, ret, raised, stdout, lastRead, rawFrom>>

\* DataProcessor.__init__ (lines 15-19)
Init ==
    /\ variant \in Variants
    /\ ties \in BOOLEAN
    /\ _dataset = None
    /\ result = None
    /\ op = "new"
    /\ ret = "None"
    /\ raised = FALSE
    /\ stdout = ""
    /\ lastRead = "none"
    /\ rawFrom = "unset"

\* mutant: read() starts a new result
read_reset(src) ==
    /\ op' = "read"
    /\ raised' = FALSE
    /\ IF src = Unparsable
       THEN /\ _dataset' = _dataset
            /\ stdout' = "detail"
            /\ ret' = "False"
            /\ rawFrom' = rawFrom
       ELSE /\ _dataset' = src
            /\ stdout' = ""
            /\ ret' = IF Len(src.cols) < MinCols THEN "False" ELSE "True"
            /\ rawFrom' = IF ret' = "True" THEN "current"
                          ELSE IF rawFrom = "unset" THEN "unset" ELSE "stale"
    /\ lastRead' = ret'
    /\ result' = None
    /\ UNCHANGED <<variant, ties>>

\* read() of the three processors (lines 68-79, 96-105, 119-128); src is
\* what the pandas reader does with the data source at the time of the call
read(src) ==
    /\ op' = "read"
    /\ raised' = FALSE
    /\ IF src = Unparsable
       THEN /\ _dataset' = _dataset
            /\ stdout' = "detail"
            /\ ret' = "False"
            /\ rawFrom' = rawFrom
       ELSE /\ _dataset' = src
            /\ stdout' = ""
            /\ ret' = IF ReadReturns(src) THEN "True" ELSE "False"
            /\ rawFrom' = IF ReadReturns(src) THEN "current"
                          ELSE IF rawFrom = "unset" THEN "unset" ELSE "stale"
    /\ lastRead' = ret'
    /\ UNCHANGED <<variant, ties, result>>

\* run() of the three processors (lines 82-87, 107-112, 130-135)
run ==
    /\ Len(result.rows) + Len(_dataset.rows) <= MaxResultRows
    /\ op' = "run"
    /\ ret' = "None"
    /\ stdout' = ""
    /\ IF RunRaises(_dataset, variant)
       THEN /\ raised' = TRUE
            /\ result' = result
       ELSE /\ raised' = FALSE
            /\ result' = concat(result, Cleaned(_dataset, variant, ties))
    /\ UNCHANGED <<variant, ties, _dataset, lastRead, rawFrom>>

\* print_result() of the three processors (lines 89-90, 114-115, 137-138)
print_result ==
    /\ op' = "print_result"
    /\ ret' = "None"
    /\ raised' = FALSE
    /\ stdout' = Label(variant)
    /\ UNCHANGED <<variant, ties, _dataset, result, lastRead, rawFrom>>

Next ==
    \/ \E src \in Sources : read(src)
    \/ run
    \/ print_result

Spec == Init /\ [][Next]_vars

\* ------------------------------------------------------------ properties
\* a step in which run() returned normally
RunOk == op' = "run" /\ raised' = FALSE

\* the rows a step added at the end of ResultTable
Batch == SubSeq(result'.rows, Len(result.rows) + 1, Len(result'.rows))

\* the rows ResultTable had before the step are its first rows after it,
\* in their order and with their cells
PrefixKept ==
    /\ Len(result'.rows) >= Len(result.rows)
    /\ \A i \in 1..Len(result.rows) :
          \A c \in Range(result.cols) :
             c \in DOMAIN result'.rows[i] /\ result'.rows[i][c] = result.rows[i][c]

\* the columns run() references
Referenced(v) == Range(DropCols(v)) \cup Range(target_values)

\* C1: read() never raises and returns a boolean; it returns False when the
\* parse raised (the except branch printed the detail) or the parsed table
\* has fewer than 2 columns, and True exactly when the parse succeeded with
\* at least 2 columns, and then _dataset is the table just parsed.
C1_ReadContract ==
    op = "read" =>
        /\ raised = FALSE
        /\ ret \in {"True", "False"}
        /\ stdout = "detail" => ret = "False"
        /\ stdout = "" => (/\ _dataset \in Parsed
                           /\ ret = "True" <=> Len(_dataset.cols) >= 2)
        /\ ret = "True" => (/\ stdout = ""
                            /\ _dataset \in Parsed
                            /\ Len(_dataset.cols) >= 2
                            /\ rawFrom = "current")

C1_Witness ==
    /\ op = "read" /\ ret = "True"
    /\ Len(_dataset.cols) >= 2 /\ Len(_dataset.rows) = MaxRows

\* C2 (as claimed): while the most recent read() returned False, run() does
\* not append a batch to ResultTable.
C2_NoBatchAfterFailedRead ==
    [][(lastRead = "False" /\ op' = "run") => result' = result]_vars

\* C3: run() before any read() has returned True raises, and ResultTable
\* stays None.
C3_RunBeforeRead ==
    rawFrom = "unset" =>
        /\ result = None
        /\ op = "run" => raised

C3_Witness == op = "run" /\ raised /\ rawFrom = "unset" /\ _dataset = None

\* C4: the row count of ResultTable never decreases; a run() that returns
\* adds exactly the rows of the current RawTable after the rows already
\* there, which stay a prefix in their order.
C4_Accumulates ==
    [][/\ Len(result'.rows) >= Len(result.rows)
       /\ RunOk => /\ Len(result'.rows) = Len(result.rows) + Len(_dataset.rows)
                   /\ PrefixKept]_vars

\* two run() calls after one read(): twice the per-call row count
C4_Witness ==
    /\ op = "run" /\ raised = FALSE
    /\ Len(_dataset.rows) = 1
    /\ Len(result.rows) = 2 * Len(_dataset.rows)

\* C5: ResultTable changes only in a run() that returns, and only by
\* appending; read(), print_result() and a run() that raises leave it as
\* it was.
C5_OnlyRunAppends ==
    [][/\ result' # result => (RunOk /\ PrefixKept)
       /\ (op' \in {"read", "print_result"} \/ raised') => result' = result]_vars

C5_Witness ==
    /\ op = "read" /\ ret = "False"
    /\ Len(result.rows) > 0

\* C6: ResultTable never has a column dateAdded, nor, for the JSON
\* processor, a column avgRating.
C6_DroppedColumnsAbsent ==
    /\ "dateAdded" \notin Range(result.cols)
    /\ variant = "json" => "avgRating" \notin Range(result.cols)

\* two batches from sources with different column sets
C6_Witness ==
    /\ variant = "json"
    /\ Len(result.rows) = 2
    /\ "genre" \in Range(result.cols)
    /\ \E i \in 1..Len(result.rows) : result.rows[i]["genre"] = NaN

C8_FailureReported ==
    (op = "read" /\ ret = "False") => stdout # ""

\* C9: run() on a RawTable that lacks a column it references raises, also
\* after a read() that returned True.
C9_MissingColumnRaises ==
    (op = "run" /\ \E c \in Referenced(variant) : c \notin Range(_dataset.cols))
        => raised

C9_Witness ==
    /\ op = "run" /\ raised
    /\ lastRead = "True" /\ rawFrom = "current"
    /\ Len(_dataset.cols) >= 2
    /\ variant = "json"
    /\ Referenced(variant) \ Range(_dataset.cols) = {"avgRating"}

\* C10: a run() that returns leaves RawTable unchanged, works on the table
\* of the most recent read() that returned True, and appends a permutation
\* of its rows projected onto the columns that are not dropped, these in
\* their original order; a run() right after a run() appends the same batch
\* again.
KeptCols == SelectSeq(_dataset.cols, LAMBDA c : c \notin Range(DropCols(variant)))

Projected(p) ==
    DataFrame(KeptCols,
              [i \in 1..Len(_dataset.rows) |->
                  [c \in Range(KeptCols) |-> _dataset.rows[p[i]][c]]])

C10_BatchIsPermutation ==
    [][RunOk =>
         /\ _dataset' = _dataset
         /\ rawFrom = "current"
         /\ \E p \in Permutations(1..Len(_dataset.rows)) :
               result' = concat(result, Projected(p))
         /\ (op = "run" /\ raised = FALSE) =>
               result'.rows = result.rows \o
                   SubSeq(result.rows,
                          Len(result.rows) - Len(_dataset.rows) + 1,
                          Len(result.rows))]_vars

\* the same one-row batch appended twice, by run() calls that follow a
\* read() whose parse raised after an earlier read() had returned True
C10_Witness ==
    /\ op = "run" /\ raised = FALSE
    /\ lastRead = "False"
    /\ Len(_dataset.rows) = 1 /\ Len(result.rows) = 2
    /\ result.rows[1] = result.rows[2]
    /\ Len(_dataset.cols) > Len(result.cols)
====
